---- MODULE Spec2Model ----
(***************************************************************************)
(* Resume-Skill-Extractor: the resume store, the embedding provider, the   *)
(* similarity search, the rule ranker and the ML ranker, as one state      *)
(* machine.                                                                *)
(*                                                                         *)
(* Representation.                                                         *)
(*  - A JSON value is a record [t, items]: t is its kind ("list", "null",  *)
(*    "num", "str", "obj", "intlist") and items its elements (the entries  *)
(*    of a list, the characters of a string, the keys of an object).       *)
(*  - A Text column is [null, json]: SQL NULL, or the JSON text of json.    *)
(*  - A float score is the exact real  num / sqrt(den)  with den > 0, kept *)
(*    as [num, den]; min_similarity and cgpa are counted in tenths.        *)
(*  - name, email, phone, education and the soft skills are stored by      *)
(*    save_resume and read by no operation below; they are left out.       *)
(*  - train() and embed_text are given twice: as one step, for the calls    *)
(*    that run alone, and in the steps another process or thread can see   *)
(*    (train_open, train_dump; embed_text_call ... embed_text_encode).     *)
(***************************************************************************)
EXTENDS Integers, Sequences, FiniteSets, TLC

VARIABLES
    rows,        \* table resumes, in rowid order: what db.query(Resume).all() yields
    MODEL_NAME,  \* EMBEDDING_MODEL of the running process
    embedder,    \* the global _embedder: None or the loaded model's name
    artifact,    \* the file app/ml/train_ranker.pkl
    result,      \* what the last operation returned
    training,    \* where a train() in progress stands, and the model it has fitted
    pc,          \* where each thread of the process stands in embed_text
    constructed, \* how many times the process has constructed SentenceTransformer
    backfilling  \* where a run of backfill_embeddings.py stands, and the rows it fetched

vars == <<rows, MODEL_NAME, embedder, artifact, result, training, pc, constructed,
          backfilling>>

None == "None"

(* ------------------------------ bounds -------------------------------- *)

MaxId == 2
MaxTopN == 2
MaxThreads == 2

(* ---------------------------- JSON and text ---------------------------- *)

JList(s) == [t |-> "list", items |-> s]
JNull == [t |-> "null", items |-> <<>>]
JNum == [t |-> "num", items |-> <<>>]
JStr(s) == [t |-> "str", items |-> s]
JObj(keys) == [t |-> "obj", items |-> keys]
JIntList(s) == [t |-> "intlist", items |-> s]

JFloats(v) == [t |-> "floats", items |-> v]

\* a Text column that is NULL
SqlNull == [null |-> TRUE, json |-> JNull]
\* json.dumps: a Python value to its JSON text (never the empty string, never NULL)
Dumps(v) == [null |-> FALSE, json |-> v]
\* json.loads on a text json.dumps wrote
Loads(text) == text.json
\* truthiness of a Text column: NULL and '' are falsy, any JSON text is truthy
Truthy(col) == ~col.null

\* a Float column: NULL or a number (cgpa, in tenths)
NoNumber == [null |-> TRUE, v |-> 0]
Number(x) == [null |-> FALSE, v |-> x]

\* str.lower on the skill names in use
Lower(s) ==
    CASE s = "AI" -> "ai"
      [] s = "ML" -> "ml"
      [] s = "Python" -> "python"
      [] OTHER -> s

\* a text left as it is: no strip
StripNothing(s) == s

\* str.strip on the texts in use
Strip(s) == IF s = " " THEN "" ELSE s

(* ------------------------------- scores -------------------------------- *)

Score(n, d) == [num |-> n, den |-> d]
Zero == Score(0, 1)

\* x >= y on floats, x = x.num / sqrt(x.den), y = y.num / sqrt(y.den)
Geq(x, y) ==
    IF x.num >= 0
    THEN IF y.num <= 0 THEN TRUE
         ELSE x.num * x.num * y.den >= y.num * y.num * x.den
    ELSE IF y.num >= 0 THEN FALSE
         ELSE x.num * x.num * y.den <= y.num * y.num * x.den

Gt(x, y) == ~Geq(y, x)

\* a threshold given in tenths, as a score
Tenths(m) == Score(m, 100)

Min2(a, b) == IF a <= b THEN a ELSE b
Max2(a, b) == IF a >= b THEN a ELSE b

\* the list returned whole: the slice forgotten
NoSlice(s, n) == s

\* s[:n]
PySlice(s, n) ==
    IF n >= 0 THEN SubSeq(s, 1, Min2(n, Len(s)))
    ELSE SubSeq(s, 1, Max2(Len(s) + n, 0))

\* one entry of a scored list: (resume, score)
Entry(id, sc) == [id |-> id, num |-> sc.num, den |-> sc.den]

\* a descending sort that puts an entry before the entries of equal key
InsertDescBeforeEqual(t, x) ==
    LET k == Cardinality({i \in 1..Len(t) : ~Geq(x, t[i])})
    IN SubSeq(t, 1, k) \o <<x>> \o SubSeq(t, k + 1, Len(t))

\* list.sort(key=lambda x: x[1], reverse=True): stable, equal keys keep their order
InsertDesc(t, x) ==
    LET k == Cardinality({i \in 1..Len(t) : Geq(t[i], x)})
    IN SubSeq(t, 1, k) \o <<x>> \o SubSeq(t, k + 1, Len(t))

\* list.sort(key=lambda x: x[1]) without reverse=True
RECURSIVE SortAsc(_)
SortAsc(s) ==
    IF s = <<>> THEN <<>>
    ELSE LET t == SortAsc(SubSeq(s, 1, Len(s) - 1))
             x == s[Len(s)]
             k == Cardinality({i \in 1..Len(t) : Geq(x, t[i])})
         IN SubSeq(t, 1, k) \o <<x>> \o SubSeq(t, k + 1, Len(t))

RECURSIVE SortDesc(_)
SortDesc(s) ==
    IF s = <<>> THEN <<>>
    ELSE InsertDesc(SortDesc(SubSeq(s, 1, Len(s) - 1)), s[Len(s)])

(* -------------------------- embedding provider ------------------------- *)

Models == {"m2", "m3"}

\* SentenceTransformer(MODEL_NAME).encode([text])[0].tolist(): a fixed vector per
\* model and text; "m2" has 2 dimensions, "m3" has 3
Encode(m, text) ==
    IF m = "m2"
    THEN CASE text = "a" -> <<1, 0>>
           [] text = "b" -> <<3, 4>>
           [] text = "c" -> <<-1, 0>>
           [] text = "d" -> <<2, 0>>
           [] OTHER -> <<0, 0>>
    ELSE CASE text = "a" -> <<1, 0, 0>>
           [] text = "b" -> <<3, 4, 0>>
           [] text = "c" -> <<-1, 0, 1>>
           [] text = "d" -> <<2, 0, 0>>
           [] OTHER -> <<0, 0, 1>>

RECURSIVE Dot(_, _)
Dot(a, b) ==
    IF a = <<>> THEN 0 ELSE a[1] * b[1] + Dot(Tail(a), Tail(b))

\* cosine_similarity(a, b) by its exact value: [raised, sc]; np.dot raises
\* ValueError when the shapes differ. The searches below compare these values with
\* each other and with thresholds they do not come within rounding of; the floats
\* the function returns are modelled by cosine_similarity_float.
cosine_similarity(a, b) ==
    IF a = <<>> \/ b = <<>> THEN [raised |-> FALSE, sc |-> Zero]
    ELSE LET denom == Dot(a, a) * Dot(b, b)
         IN IF denom = 0 THEN [raised |-> FALSE, sc |-> Zero]
            ELSE IF Len(a) # Len(b) THEN [raised |-> TRUE, sc |-> Zero]
            ELSE [raised |-> FALSE, sc |-> Score(Dot(a, b), denom)]

(* ---------------------- floating-point arithmetic ---------------------- *)

\* numpy computes in binary64: every operation gives the representable number
\* nearest to the exact result (ties to the even significand), infinity beyond the
\* largest number, zero below the smallest, and nan where no number is defined.
\* The format here has the same rules and fewer bits, so that its numbers can be
\* enumerated: a significand of Precision bits (binary64: 53), and numbers that are
\* multiples m * 2^j, j in 0..ExpRange, of the smallest one, 2^-UnitShift.
\* A float is [c, k]: c = "fin" and k the number counted in units 2^-UnitShift;
\* c = "inf" and k its sign; c = "nan".
Precision == 5
UnitShift == 4
ExpRange == 8

Pow2(n) == 2 ^ n

Fin(k) == [c |-> "fin", k |-> k]
Inf(s) == [c |-> "inf", k |-> s]
NaN == [c |-> "nan", k |-> 0]

\* 1.0
One == Pow2(UnitShift)

\* the magnitudes of the finite floats, in units
Mags == {m * Pow2(j) : m \in 0..(Pow2(Precision) - 1), j \in 0..ExpRange}
MaxMag == (Pow2(Precision) - 1) * Pow2(ExpRange)

SetMax(S) == CHOOSE x \in S : \A y \in S : y <= x
SetMin(S) == CHOOSE x \in S : \A y \in S : x <= y

\* whether the significand of the float of magnitude k is even
EvenSignificand(k) ==
    LET j == SetMin({i \in 0..ExpRange : k < Pow2(Precision + i)})
    IN (k \div Pow2(j)) % 2 = 0

\* of two neighbouring floats lo < hi around an exact result, the nearer one: cmp
\* is -1, 0, 1 as the result is below, at, above their midpoint
Nearest(lo, hi, cmp) ==
    IF cmp < 0 THEN lo
    ELSE IF cmp > 0 THEN hi
    ELSE IF EvenSignificand(lo) THEN lo ELSE hi

Sign(x) == IF x < 0 THEN -1 ELSE 1
Abs(x) == IF x < 0 THEN -x ELSE x
Cmp(x, y) == IF x < y THEN -1 ELSE IF x > y THEN 1 ELSE 0

\* the float nearest to s * N / D units (N >= 0, D > 0)
Round(s, N, D) ==
    LET lo == SetMax({k \in Mags : k * D <= N})
        above == {k \in Mags : k * D >= N}
    IN IF above = {}
       THEN IF 2 * N < D * (2 * MaxMag + Pow2(ExpRange)) THEN Fin(s * MaxMag) ELSE Inf(s)
       ELSE LET hi == SetMin(above)
            IN IF lo = hi THEN Fin(s * lo)
               ELSE Fin(s * Nearest(lo, hi, Cmp(2 * N, D * (lo + hi))))

IsZero(x) == x.c = "fin" /\ x.k = 0

\* x * y
FMul(x, y) ==
    IF x.c = "nan" \/ y.c = "nan" THEN NaN
    ELSE IF x.c = "inf" \/ y.c = "inf"
    THEN IF IsZero(x) \/ IsZero(y) THEN NaN ELSE Inf(Sign(x.k) * Sign(y.k))
    ELSE Round(Sign(x.k) * Sign(y.k), Abs(x.k * y.k), Pow2(UnitShift))

\* x + y
FAdd(x, y) ==
    IF x.c = "nan" \/ y.c = "nan" THEN NaN
    ELSE IF x.c = "inf" /\ y.c = "inf" THEN IF x.k = y.k THEN x ELSE NaN
    ELSE IF x.c = "inf" THEN x
    ELSE IF y.c = "inf" THEN y
    ELSE Round(Sign(x.k + y.k), Abs(x.k + y.k), 1)

\* x / y
FDiv(x, y) ==
    IF x.c = "nan" \/ y.c = "nan" THEN NaN
    ELSE IF x.c = "inf" THEN IF y.c = "inf" THEN NaN ELSE Inf(Sign(x.k) * Sign(y.k))
    ELSE IF y.c = "inf" THEN Fin(0)
    ELSE IF y.k = 0 THEN IF x.k = 0 THEN NaN ELSE Inf(Sign(x.k))
    ELSE Round(Sign(x.k) * Sign(y.k), Abs(x.k) * Pow2(UnitShift), Abs(y.k))

\* sqrt(x), x not negative
FSqrt(x) ==
    IF x.c # "fin" THEN x
    ELSE LET T == x.k * Pow2(UnitShift)
             lo == SetMax({k \in Mags : k * k <= T})
             hi == SetMin({k \in Mags : k * k >= T})
         IN IF lo = hi THEN Fin(lo)
            ELSE Fin(Nearest(lo, hi, Cmp(4 * T, (lo + hi) * (lo + hi))))

RECURSIVE FDotFrom(_, _, _)
\* acc + a[1] * b[1] + ..., added from left to right, over the common length
FDotFrom(acc, a, b) ==
    IF a = <<>> \/ b = <<>> THEN acc
    ELSE FDotFrom(FAdd(acc, FMul(Fin(a[1]), Fin(b[1]))), Tail(a), Tail(b))

\* np.dot of two vectors of floats given in units
FDot(a, b) == FDotFrom(Fin(0), a, b)

\* np.linalg.norm(v) = sqrt(v.dot(v))
FNorm(v) == FSqrt(FDot(v, v))

\* cosine_similarity(a, b) on lists of floats (in units), in float arithmetic:
\* [raised, value]; nan == 0 is false, and np.dot raises ValueError on two lengths
cosine_similarity_float(a, b) ==
    IF a = <<>> \/ b = <<>> THEN [raised |-> FALSE, value |-> Fin(0)]
    ELSE LET denom == FMul(FNorm(a), FNorm(b))
         IN IF IsZero(denom) THEN [raised |-> FALSE, value |-> Fin(0)]
            ELSE IF Len(a) # Len(b) THEN [raised |-> TRUE, value |-> NaN]
            ELSE [raised |-> FALSE, value |-> FDiv(FDot(a, b), denom)]

(* ------------------------------ the store ------------------------------ *)

Ids == 1..MaxId

HasId(id) == \E i \in 1..Len(rows) : rows[i].id = id
IndexOf(id) == CHOOSE i \in 1..Len(rows) : rows[i].id = id
RowOf(id) == rows[IndexOf(id)]

\* the rowid SQLite gives an INTEGER PRIMARY KEY row: one more than the largest
NextId == IF rows = <<>> THEN 1 ELSE rows[Len(rows)].id + 1

\* Resume.embedding.isnot(None), Resume.embedding != ''
HasEmbedding(r) == ~r.embedding.null

RECURSIVE SelectSeq2(_, _)
\* the rows of s whose id is in keep, in order
SelectSeq2(s, keep) ==
    IF s = <<>> THEN <<>>
    ELSE IF s[1].id \in keep THEN <<s[1]>> \o SelectSeq2(Tail(s), keep)
    ELSE SelectSeq2(Tail(s), keep)

RemoveId(s, id) == SelectSeq2(s, {s[i].id : i \in 1..Len(s)} \ {id})

(* ------------------------------- results ------------------------------- *)

NoArgs ==
    [jd |-> "", qvec |-> <<>>, top_n |-> 0, min_similarity |-> 0,
     preferred |-> [none |-> TRUE, list |-> <<>>], id |-> 0, flag |-> FALSE,
     queried |-> FALSE, a |-> <<>>, b |-> <<>>, value |-> Fin(0)]

\* what an operation returned: out is its list, ret its boolean, raised whether an
\* exception left it; args are its arguments (qvec: the embedding it got for jd;
\* queried: whether it opened a session and queried the table; a, b, value: the
\* vectors given to cosine_similarity and the float it returned)
Res(op, args, raised, ret, out) ==
    [op |-> op, args |-> args, raised |-> raised, ret |-> ret, out |-> out]

(* ----------------------------- embed_text ------------------------------ *)

Failures == {"none", "load", "encode"}

\* a failure the provider can produce on this call: the model is constructed only
\* when _embedder is None
CanFail(text, loaded, fail) ==
    \/ fail = "none"
    \/ fail = "encode" /\ text # ""
    \/ fail = "load" /\ text # "" /\ loaded = None

\* embed_text(text) in a process whose _embedder is loaded and whose model is m:
\* [raised, vec, loaded], loaded the _embedder it leaves
embed_text(text, m, loaded, fail) ==
    IF text = "" THEN [raised |-> FALSE, vec |-> <<>>, loaded |-> loaded]
    ELSE IF loaded = None /\ fail = "load"
    THEN [raised |-> TRUE, vec |-> <<>>, loaded |-> None]
    ELSE LET model == IF loaded = None THEN m ELSE loaded
         IN IF fail = "encode"
            THEN [raised |-> TRUE, vec |-> <<>>, loaded |-> model]
            ELSE [raised |-> FALSE, vec |-> Encode(model, Strip(text)), loaded |-> model]

\* the constructions of SentenceTransformer a call of embed_text that gave e made
Constructions(loaded, e) == IF loaded = None /\ e.loaded # None THEN 1 ELSE 0

\* the threads of the process that call embed_text
Threads == 1..MaxThreads

\* a thread that is in no call of embed_text
Idle == [at |-> "idle", text |-> "", model |-> None]

\* embed_text(text) called by thread t, in the steps the other threads can see.
\* embed_text_call: line 20, `if not text: return []`
embed_text_call(t, text) ==
    /\ pc[t].at = "idle"
    /\ IF text = ""
       THEN /\ pc' = pc
            /\ result' = Res("embed_text", [NoArgs EXCEPT !.jd = text], FALSE, TRUE, <<>>)
       ELSE /\ pc' = [pc EXCEPT ![t] = [at |-> "test", text |-> text, model |-> None]]
            /\ result' = result
    /\ UNCHANGED <<rows, MODEL_NAME, embedder, artifact, training, constructed, backfilling>>

\* line 14 of _get_model: `if _embedder is None`
get_model_test(t) ==
    /\ pc[t].at = "test"
    /\ pc' = [pc EXCEPT ![t].at = IF embedder = None THEN "construct" ELSE "return"]
    /\ UNCHANGED <<rows, MODEL_NAME, embedder, artifact, result, training, constructed, backfilling>>

\* line 15: `_embedder = SentenceTransformer(MODEL_NAME)`; with fail = "load" the
\* constructor raises and the exception leaves embed_text
get_model_construct(t, fail) ==
    /\ pc[t].at = "construct"
    /\ IF fail = "load"
       THEN /\ pc' = [pc EXCEPT ![t] = Idle]
            /\ result' = Res("embed_text", [NoArgs EXCEPT !.jd = pc[t].text],
                             TRUE, FALSE, <<>>)
            /\ UNCHANGED <<embedder, constructed>>
       ELSE /\ embedder' = MODEL_NAME
            /\ constructed' = constructed + 1
            /\ pc' = [pc EXCEPT ![t].at = "return"]
            /\ result' = result
    /\ UNCHANGED <<rows, MODEL_NAME, artifact, training, backfilling>>

\* line 16: `return _embedder`, the global as it is now
get_model_return(t) ==
    /\ pc[t].at = "return"
    /\ pc' = [pc EXCEPT ![t].at = "encode", ![t].model = embedder]
    /\ UNCHANGED <<rows, MODEL_NAME, embedder, artifact, result, training, constructed, backfilling>>

\* lines 23-24: model.encode([text.strip()])[0].tolist()
embed_text_encode(t, fail) ==
    /\ pc[t].at = "encode"
    /\ pc' = [pc EXCEPT ![t] = Idle]
    /\ result' = IF fail = "encode"
                 THEN Res("embed_text", [NoArgs EXCEPT !.jd = pc[t].text],
                          TRUE, FALSE, <<>>)
                 ELSE Res("embed_text",
                          [NoArgs EXCEPT !.jd = pc[t].text,
                                         !.qvec = Encode(pc[t].model, Strip(pc[t].text))],
                          FALSE, TRUE, <<>>)
    /\ UNCHANGED <<rows, MODEL_NAME, embedder, artifact, training, constructed, backfilling>>

(* ----------------------------- save_resume ----------------------------- *)

\* the dict save_resume stores in skills
SkillsDict(technical) ==
    [t |-> "obj", items |-> <<"technical", "soft">>, technical |-> technical]

\* the value under technical once save_resume has made skills a dict with that key
NormalSkills(skills) ==
    IF ~skills.isdict \/ ~skills.has THEN JList(<<>>) ELSE skills.technical

\* a table resumes without the CHECK constraint
CgpaUnchecked(c) == TRUE

\* the CHECK constraint check_cgpa_range
CgpaInRange(c) == c.null \/ (c.v >= 0 /\ c.v <= 100)

\* the text "[]" stored where embed_text raised or gave the empty list
EmbeddingJsonEmptyList(e) ==
    IF e.raised \/ e.vec = <<>> THEN Dumps(JFloats(<<>>)) ELSE Dumps(JFloats(e.vec))

\* json.dumps(embedding_vector) whatever the vector: "[]" stored for an empty one
EmbeddingJsonAlways(e) == IF e.raised THEN SqlNull ELSE Dumps(JFloats(e.vec))

\* embedding_json: the text stored for what embed_text gave, None when it raised or
\* gave the empty list
EmbeddingJson(e) ==
    IF e.raised \/ e.vec = <<>> THEN SqlNull ELSE Dumps(JFloats(e.vec))

\* updated_at of a record: the time of its INSERT (default=func.now()), or a later
\* time of the database (onupdate=func.now()); the time does not go back
AtInsert == 0
Later == 1

save_resume(d, fail) ==
    /\ CanFail(d.raw_text, embedder, fail)
    /\ LET e == embed_text(d.raw_text, MODEL_NAME, embedder, fail)
           embedding_json == EmbeddingJson(e)
           db_resume == [id |-> NextId,
                         skills |-> Dumps(SkillsDict(NormalSkills(d.skills))),
                         experience |-> Dumps(d.experience),
                         cgpa |-> d.cgpa,
                         raw_text |-> d.raw_text,
                         embedding |-> embedding_json,
                         hired |-> 0,
                         updated_at |-> AtInsert]
       IN /\ embedder' = e.loaded
          /\ constructed' = constructed + Constructions(embedder, e)
          /\ IF ~CgpaInRange(d.cgpa)
             THEN /\ rows' = rows
                  /\ result' = Res("save_resume", NoArgs, TRUE, FALSE, <<>>)
             ELSE /\ NextId <= MaxId
                  /\ rows' = Append(rows, db_resume)
                  /\ result' = Res("save_resume", [NoArgs EXCEPT !.id = NextId],
                                   FALSE, TRUE, <<>>)
    /\ UNCHANGED <<MODEL_NAME, artifact, training, pc, backfilling>>

(* ------------------------ set_hired, delete_resume --------------------- *)

\* set_hired that writes the flag into every record
set_hired_every_row(resume_id, hired, now) ==
    /\ IF HasId(resume_id)
       THEN /\ rows' = [i \in 1..Len(rows) |->
                          [rows[i] EXCEPT !.hired = IF hired THEN 1 ELSE 0]]
            /\ result' = Res("set_hired", [NoArgs EXCEPT !.id = resume_id, !.flag = hired],
                             FALSE, TRUE, <<>>)
       ELSE /\ rows' = rows
            /\ result' = Res("set_hired", [NoArgs EXCEPT !.id = resume_id, !.flag = hired],
                             FALSE, FALSE, <<>>)
    /\ UNCHANGED <<MODEL_NAME, embedder, artifact, training, pc, constructed, backfilling>>

\* r.hired = 1 if hired else 0, and commit: the flush writes an UPDATE when the
\* value differs from the one loaded, and the UPDATE sets updated_at to now
SetHiredRow(r, hired, now) ==
    LET flag == IF hired THEN 1 ELSE 0
    IN IF r.hired = flag THEN r
       ELSE [r EXCEPT !.hired = flag, !.updated_at = Max2(r.updated_at, now)]

\* now is the time of the database at the commit
set_hired(resume_id, hired, now) ==
    /\ IF HasId(resume_id)
       THEN /\ rows' = [rows EXCEPT ![IndexOf(resume_id)] = SetHiredRow(@, hired, now)]
            /\ result' = Res("set_hired", [NoArgs EXCEPT !.id = resume_id, !.flag = hired],
                             FALSE, TRUE, <<>>)
       ELSE /\ rows' = rows
            /\ result' = Res("set_hired", [NoArgs EXCEPT !.id = resume_id, !.flag = hired],
                             FALSE, FALSE, <<>>)
    /\ UNCHANGED <<MODEL_NAME, embedder, artifact, training, pc, constructed, backfilling>>

delete_resume(resume_id) ==
    /\ IF HasId(resume_id)
       THEN /\ rows' = RemoveId(rows, resume_id)
            /\ result' = Res("delete_resume", [NoArgs EXCEPT !.id = resume_id],
                             FALSE, TRUE, <<>>)
       ELSE /\ rows' = rows
            /\ result' = Res("delete_resume", [NoArgs EXCEPT !.id = resume_id],
                             FALSE, FALSE, <<>>)
    /\ UNCHANGED <<MODEL_NAME, embedder, artifact, training, pc, constructed, backfilling>>

(* ------------------------------ back-fill ------------------------------ *)

\* scripts/backfill_embeddings.py main(): its own process, so its own _embedder;
\* failed is the set of rows whose embed_text raises
NeedsEmbedding == {rows[i].id : i \in {j \in 1..Len(rows) : ~HasEmbedding(rows[j])}}

\* one turn of the loop over the rows selected WHERE embedding IS NULL OR embedding = ''
BackfillRow(r, failed) ==
    IF HasEmbedding(r) \/ r.raw_text = "" THEN r
    ELSE LET e == embed_text(r.raw_text, MODEL_NAME, None,
                             IF r.id \in failed THEN "encode" ELSE "none")
         IN IF e.raised \/ e.vec = <<>> THEN r
            ELSE [r EXCEPT !.embedding = Dumps(JFloats(e.vec))]

backfill(failed) ==
    /\ failed \subseteq NeedsEmbedding
    /\ rows' = [i \in 1..Len(rows) |-> BackfillRow(rows[i], failed)]
    /\ result' = Res("backfill", NoArgs, FALSE, TRUE, <<>>)
    /\ UNCHANGED <<MODEL_NAME, embedder, artifact, training, pc, constructed, backfilling>>

\* no back-fill is running
NotBackfilling == [at |-> "idle", pending |-> <<>>]

\* the back-fill in the steps the application can run between.
\* backfill_select: SELECT id, raw_text ... WHERE embedding IS NULL OR embedding = ''
\* and fetchall(); with no such row the script returns
backfill_select ==
    /\ backfilling.at = "idle"
    /\ LET resumes == SelectSeq2(rows, NeedsEmbedding)
           fetched == [i \in 1..Len(resumes) |->
                         [id |-> resumes[i].id, raw_text |-> resumes[i].raw_text]]
       IN IF fetched = <<>>
          THEN /\ backfilling' = backfilling
               /\ result' = Res("backfill", NoArgs, FALSE, TRUE, <<>>)
          ELSE /\ backfilling' = [at |-> "loop", pending |-> fetched]
               /\ result' = result
    /\ UNCHANGED <<rows, MODEL_NAME, embedder, artifact, training, pc, constructed>>

\* UPDATE resumes SET embedding = ? WHERE id = ?
UpdateEmbedding(table, resume_id, embedding) ==
    [i \in 1..Len(table) |->
        IF table[i].id = resume_id THEN [table[i] EXCEPT !.embedding = embedding]
        ELSE table[i]]

\* backfill_row: one turn of the loop over the fetched rows; after the last one
\* the script returns. fail is how embed_text ends for this row
backfill_row(fail) ==
    /\ backfilling.at = "loop"
    /\ LET resume_id == backfilling.pending[1].id
           raw_text == backfilling.pending[1].raw_text
           e == embed_text(raw_text, MODEL_NAME, None, fail)
           rest == Tail(backfilling.pending)
       IN /\ fail = "none" \/ (raw_text # "" /\ fail = "encode")
          /\ rows' = IF raw_text = "" \/ e.raised \/ e.vec = <<>> THEN rows
                     ELSE UpdateEmbedding(rows, resume_id, Dumps(JFloats(e.vec)))
          /\ IF rest = <<>>
             THEN /\ backfilling' = NotBackfilling
                  /\ result' = Res("backfill", NoArgs, FALSE, TRUE, <<>>)
             ELSE /\ backfilling' = [backfilling EXCEPT !.pending = rest]
                  /\ result' = result
    /\ UNCHANGED <<MODEL_NAME, embedder, artifact, training, pc, constructed>>

(* ------------------------- a new process starts ------------------------ *)

\* the process is started with EMBEDDING_MODEL = m; _embedder starts as None
restart(m) ==
    /\ MODEL_NAME' = m
    /\ embedder' = None
    /\ pc' = [t \in Threads |-> Idle]
    /\ constructed' = 0
    /\ result' = Res("restart", NoArgs, FALSE, TRUE, <<>>)
    /\ UNCHANGED <<rows, artifact, training, backfilling>>

(* ------------------------ match_job_description ------------------------ *)

\* the loop over the resumes that have an embedding: [raised, scored]; an exception
\* that is neither JSONDecodeError nor TypeError leaves the loop
RECURSIVE ScoreLoop(_, _, _, _)
ScoreLoop(resumes, jd_embedding, min_similarity, scored) ==
    IF resumes = <<>> THEN [raised |-> FALSE, scored |-> scored]
    ELSE LET resume == resumes[1]
             resume_embedding == Loads(resume.embedding)
         IN IF resume_embedding.t # "floats"
            THEN ScoreLoop(Tail(resumes), jd_embedding, min_similarity, scored)
            ELSE LET similarity == cosine_similarity(jd_embedding, resume_embedding.items)
                 IN IF similarity.raised THEN [raised |-> TRUE, scored |-> <<>>]
                    ELSE IF Geq(similarity.sc, Tenths(min_similarity))
                    THEN ScoreLoop(Tail(resumes), jd_embedding, min_similarity,
                                   Append(scored, Entry(resume.id, similarity.sc)))
                    ELSE ScoreLoop(Tail(resumes), jd_embedding, min_similarity, scored)

\* whether match_job_description, given what embed_text gave for jd_text, goes on
\* to SessionLocal() and db.query
ReachesStore(e) == ~e.raised /\ e.vec # <<>>

\* the list match_job_description returns, given what embed_text gave for jd_text
MatchOut(e, top_n, min_similarity) ==
    IF e.raised \/ e.vec = <<>> THEN <<>>
    ELSE LET resumes == SelectSeq2(rows, {rows[i].id : i \in {j \in 1..Len(rows) : HasEmbedding(rows[j])}})
         IN IF resumes = <<>> THEN <<>>
            ELSE LET loop == ScoreLoop(resumes, e.vec, min_similarity, <<>>)
                 IN IF loop.raised THEN <<>>
                    ELSE PySlice(SortDesc(loop.scored), top_n)

match_job_description(jd_text, top_n, min_similarity, fail) ==
    /\ CanFail(Strip(jd_text), embedder, fail)
    /\ LET args == [NoArgs EXCEPT !.jd = jd_text, !.top_n = top_n,
                                  !.min_similarity = min_similarity]
       IN IF Strip(jd_text) = ""
          THEN /\ embedder' = embedder
               /\ constructed' = constructed
               /\ result' = Res("match_job_description", args, FALSE, TRUE, <<>>)
          ELSE LET e == embed_text(jd_text, MODEL_NAME, embedder, fail)
               IN /\ embedder' = e.loaded
                  /\ constructed' = constructed + Constructions(embedder, e)
                  /\ result' = Res("match_job_description",
                                   [args EXCEPT !.qvec = e.vec,
                                                !.queried = ReachesStore(e)],
                                   FALSE, TRUE,
                                   MatchOut(e, top_n, min_similarity))
    /\ UNCHANGED <<rows, MODEL_NAME, artifact, training, pc, backfilling>>

(* ----------------------------- rank_resumes ---------------------------- *)

\* len(x) of a parsed JSON value: TypeError for None and for a number
PyLen(v) ==
    IF v.t \in {"null", "num"} THEN [raised |-> TRUE, n |-> 0]
    ELSE [raised |-> FALSE, n |-> Len(v.items)]

\* skills_dict.get("technical", [])
GetTechnical(skills_dict) ==
    IF \E i \in 1..Len(skills_dict.items) : skills_dict.items[i] = "technical"
    THEN skills_dict.technical ELSE JList(<<>>)

EmptyDict == [t |-> "obj", items |-> <<>>, technical |-> JList(<<>>)]

\* [s.lower() for s in technical]: TypeError when technical is None or a number,
\* AttributeError when an entry is not a string
LowerAll(technical) ==
    IF technical.t \in {"null", "num"} THEN [raised |-> TRUE, set |-> {}]
    ELSE IF technical.t = "intlist" /\ technical.items # <<>>
    THEN [raised |-> TRUE, set |-> {}]
    ELSE [raised |-> FALSE,
          set |-> {Lower(technical.items[i]) : i \in 1..Len(technical.items)}]

\* sum(1 for skill in preferred_skills if skill.lower() in tech_skills)
Matches(preferred_skills, tech_skills) ==
    Cardinality({i \in 1..Len(preferred_skills) : Lower(preferred_skills[i]) \in tech_skills})

\* the weights of cgpa and of the matches exchanged
FinalScoreSwapped(cgpa_val, matches, exp_entries) ==
    (cgpa_val * 3) + (matches * 2 * 10) + exp_entries * 10

\* score = (cgpa_val * 2) + (matches * 3) + exp_entries, in tenths
FinalScore(cgpa_val, matches, exp_entries) ==
    (cgpa_val * 2) + (matches * 3 * 10) + exp_entries * 10

\* the body of the loop of rank_resumes for one resume: [raised, score], the score
\* in tenths; only json.JSONDecodeError is caught, and json.dumps wrote the texts
RuleScore(r, preferred_skills) ==
    LET cgpa_val == IF ~r.cgpa.null /\ r.cgpa.v # 0 THEN r.cgpa.v ELSE 0
        exp == IF Truthy(r.experience) THEN PyLen(Loads(r.experience))
               ELSE [raised |-> FALSE, n |-> 0]
        skills_dict == IF Truthy(r.skills) THEN Loads(r.skills) ELSE EmptyDict
        tech == LowerAll(GetTechnical(skills_dict))
        matches == Matches(preferred_skills, tech.set)
    IN IF exp.raised \/ tech.raised THEN [raised |-> TRUE, score |-> 0]
       ELSE [raised |-> FALSE, score |-> FinalScore(cgpa_val, matches, exp.n)]

DefaultSkills == <<"AI", "ML">>

\* the default substituted for None only
PreferredNoneOnly(p) == IF p.none THEN DefaultSkills ELSE p.list

\* preferred_skills after the default is substituted
Preferred(p) == IF p.none \/ Len(p.list) = 0 THEN DefaultSkills ELSE p.list

\* what rank_resumes gives: [raised, out], out the resumes in the order returned,
\* each with the score computed for it
RankOut(p, top_n) ==
    LET preferred_skills == Preferred(p)
        each == [i \in 1..Len(rows) |-> RuleScore(rows[i], preferred_skills)]
        scored == [i \in 1..Len(rows) |-> Entry(rows[i].id, Score(each[i].score, 1))]
    IN IF \E i \in 1..Len(rows) : each[i].raised
       THEN [raised |-> TRUE, out |-> <<>>]
       ELSE [raised |-> FALSE, out |-> PySlice(SortDesc(scored), top_n)]

rank_resumes(p, top_n) ==
    /\ LET r == RankOut(p, top_n)
       IN result' = Res("rank_resumes", [NoArgs EXCEPT !.preferred = p, !.top_n = top_n],
                        r.raised, ~r.raised, r.out)
    /\ UNCHANGED <<rows, MODEL_NAME, embedder, artifact, training, pc, constructed, backfilling>>

(* -------------------------------- train -------------------------------- *)

\* len(...) inside try/except Exception: 0 when it raises
LenOrZero(v) == IF PyLen(v).raised THEN 0 ELSE PyLen(v).n

\* _build_features(resume): [cgpa, num_skills, exp_years] and the label
build_features(resume) ==
    LET cgpa == IF ~resume.cgpa.null /\ resume.cgpa.v # 0 THEN resume.cgpa.v ELSE 0
        num_skills == IF resume.skills.null THEN 0
                      ELSE LenOrZero(Loads(resume.skills).technical)
        exp_years == IF resume.experience.null THEN 0
                     ELSE LenOrZero(Loads(resume.experience))
    IN [x |-> <<cgpa, num_skills, exp_years>>, label |-> resume.hired]

NoArtifact == [state |-> "absent", w |-> <<0, 0, 0>>, b |-> 0]
\* the file after open(MODEL_PATH, "wb") and an unfinished pickle.dump
Truncated == [state |-> "partial", w |-> <<0, 0, 0>>, b |-> 0]

RECURSIVE SumOver(_, _, _)
\* the sum over the rows of (2 * label - 1) * x[j] (j = 0: of 2 * label - 1)
SumOver(X, y, j) ==
    IF X = <<>> THEN 0
    ELSE (2 * y[1] - 1) * (IF j = 0 THEN 1 ELSE X[1][j]) + SumOver(Tail(X), Tail(y), j)

\* LogisticRegression().fit(X, y): the coefficients, a function of (X, y); here the
\* first descent step of the log-loss from zero coefficients
Fit(X, y) ==
    [state |-> "model",
     w |-> <<SumOver(X, y, 1), SumOver(X, y, 2), SumOver(X, y, 3)>>,
     b |-> SumOver(X, y, 0)]

\* a train() that opens MODEL_PATH for writing before it looks at the records
train_opening_first(write) ==
    /\ LET feats == [i \in 1..Len(rows) |-> build_features(rows[i])]
           X == [i \in 1..Len(rows) |-> feats[i].x]
           y == [i \in 1..Len(rows) |-> feats[i].label]
       IN IF rows = <<>>
          THEN /\ write = "ok"
               /\ artifact' = Truncated
               /\ result' = Res("train", NoArgs, FALSE, FALSE, <<>>)
          ELSE IF Cardinality({y[i] : i \in 1..Len(y)}) < 2
          THEN /\ write = "ok"
               /\ artifact' = Truncated
               /\ result' = Res("train", NoArgs, TRUE, FALSE, <<>>)
          ELSE IF write = "fail"
          THEN /\ artifact' = Truncated
               /\ result' = Res("train", NoArgs, TRUE, FALSE, <<>>)
          ELSE /\ artifact' = Fit(X, y)
               /\ result' = Res("train", NoArgs, FALSE, TRUE, <<>>)
    /\ UNCHANGED <<rows, MODEL_NAME, embedder, training, pc, constructed, backfilling>>

\* no train() is in progress
NotTraining == [at |-> "idle", model |-> NoArtifact]

\* write is how pickle.dump into open(MODEL_PATH, "wb") ends: "ok" or "fail"
train(write) ==
    /\ LET feats == [i \in 1..Len(rows) |-> build_features(rows[i])]
           X == [i \in 1..Len(rows) |-> feats[i].x]
           y == [i \in 1..Len(rows) |-> feats[i].label]
       IN IF rows = <<>>
          THEN /\ write = "ok"
               /\ artifact' = artifact
               /\ result' = Res("train", NoArgs, FALSE, FALSE, <<>>)
          ELSE IF Cardinality({y[i] : i \in 1..Len(y)}) < 2
          THEN /\ write = "ok"
               /\ artifact' = artifact
               /\ result' = Res("train", NoArgs, TRUE, FALSE, <<>>)
          ELSE IF write = "fail"
          THEN /\ artifact' = Truncated
               /\ result' = Res("train", NoArgs, TRUE, FALSE, <<>>)
          ELSE /\ artifact' = Fit(X, y)
               /\ result' = Res("train", NoArgs, FALSE, TRUE, <<>>)
    /\ UNCHANGED <<rows, MODEL_NAME, embedder, training, pc, constructed, backfilling>>

\* train() in the steps other processes can see. train_open: the call up to
\* open(MODEL_PATH, "wb"), which leaves the file empty; the early return and the
\* exception of fit end the call here
train_open ==
    /\ training.at = "idle"
    /\ LET feats == [i \in 1..Len(rows) |-> build_features(rows[i])]
           X == [i \in 1..Len(rows) |-> feats[i].x]
           y == [i \in 1..Len(rows) |-> feats[i].label]
       IN IF rows = <<>>
          THEN /\ UNCHANGED <<artifact, training>>
               /\ result' = Res("train", NoArgs, FALSE, FALSE, <<>>)
          ELSE IF Cardinality({y[i] : i \in 1..Len(y)}) < 2
          THEN /\ UNCHANGED <<artifact, training>>
               /\ result' = Res("train", NoArgs, TRUE, FALSE, <<>>)
          ELSE /\ training' = [at |-> "dump", model |-> Fit(X, y)]
               /\ artifact' = Truncated
               /\ result' = result
    /\ UNCHANGED <<rows, MODEL_NAME, embedder, pc, constructed, backfilling>>

\* train_dump: pickle.dump writes the fitted model into the opened file, and the
\* call returns; write is how the writing ends
train_dump(write) ==
    /\ training.at = "dump"
    /\ artifact' = IF write = "ok" THEN training.model ELSE Truncated
    /\ training' = NotTraining
    /\ result' = Res("train", NoArgs, write # "ok", write = "ok", <<>>)
    /\ UNCHANGED <<rows, MODEL_NAME, embedder, pc, constructed, backfilling>>

(* --------------------------- ml_rank_resumes --------------------------- *)

\* the three features in another order than _build_features gives them
MlFeaturesSwapped(r) ==
    LET cgpa == IF ~r.cgpa.null /\ r.cgpa.v # 0 THEN r.cgpa.v ELSE 0
        num_skills == IF r.skills.null THEN 0
                      ELSE LenOrZero(Loads(r.skills).technical)
        exp_years == IF r.experience.null THEN 0
                     ELSE LenOrZero(Loads(r.experience))
    IN <<cgpa, exp_years, num_skills>>

\* the features ml_rank_resumes computes inline for r
MlFeatures(r) ==
    LET cgpa == IF ~r.cgpa.null /\ r.cgpa.v # 0 THEN r.cgpa.v ELSE 0
        num_skills == IF r.skills.null THEN 0
                      ELSE LenOrZero(Loads(r.skills).technical)
        exp_years == IF r.experience.null THEN 0
                     ELSE LenOrZero(Loads(r.experience))
    IN <<cgpa, num_skills, exp_years>>

\* model.predict_proba([x])[0][1] = sigmoid(w . x + b), given by its logit: the
\* sigmoid is increasing, so the logits order as the probabilities do
PredictProba(model, x) == Score(Dot(model.w, x) + model.b, 1)

\* ml_rank_resumes without the test MODEL_PATH.exists(): open raises
MlOutNoExistsCheck(top_n) ==
    IF artifact.state # "model" THEN [raised |-> TRUE, out |-> <<>>]
    ELSE LET out == [i \in 1..Len(rows) |->
                       Entry(rows[i].id, PredictProba(artifact, MlFeatures(rows[i])))]
         IN [raised |-> FALSE, out |-> PySlice(SortDesc(out), top_n)]

\* what ml_rank_resumes gives: [raised, out]; pickle.load raises on a file that
\* holds no whole pickle
MlOut(top_n) ==
    IF artifact.state = "absent" THEN [raised |-> FALSE, out |-> <<>>]
    ELSE IF artifact.state = "partial" THEN [raised |-> TRUE, out |-> <<>>]
    ELSE LET out == [i \in 1..Len(rows) |->
                       Entry(rows[i].id, PredictProba(artifact, MlFeatures(rows[i])))]
         IN [raised |-> FALSE, out |-> PySlice(SortDesc(out), top_n)]

ml_rank_resumes(top_n) ==
    /\ LET r == MlOut(top_n)
       IN result' = Res("ml_rank_resumes", [NoArgs EXCEPT !.top_n = top_n],
                        r.raised, ~r.raised, r.out)
    /\ UNCHANGED <<rows, MODEL_NAME, embedder, artifact, training, pc, constructed, backfilling>>

(* ------------------------------ cleanup.py ----------------------------- *)

CleanupFiles == {"resumes.db", "app/ml/train_ranker.pkl"}

\* cleanup_project(): os.remove of each file of files_to_remove that exists; failed
\* are the files whose os.remove raises, which the loop prints and passes over.
\* Without resumes.db the store is the empty table init_db creates at the next start.
cleanup_project(failed) ==
    /\ rows' = IF "resumes.db" \in failed THEN rows ELSE <<>>
    /\ artifact' = IF "app/ml/train_ranker.pkl" \in failed THEN artifact ELSE NoArtifact
    /\ result' = Res("cleanup_project", NoArgs, FALSE, TRUE, <<>>)
    /\ UNCHANGED <<MODEL_NAME, embedder, training, pc, constructed, backfilling>>

(* ------------------------------- inputs -------------------------------- *)

TopNs == 0..MaxTopN

\* resume_data as extract_resume_data hands it to save_resume
Resume(technical, experience, cgpa, raw_text) ==
    [skills |-> [isdict |-> TRUE, has |-> TRUE, technical |-> technical],
     experience |-> experience, cgpa |-> cgpa, raw_text |-> raw_text]

Entries(n) == [i \in 1..n |-> "e"]

\* resumes that differ in their text only
MatchInputs ==
    {Resume(JList(<<"AI", "ML">>), JList(Entries(1)), Number(90), t) :
        t \in {"", "a", "b"}}

JdTexts == {"", " ", "a", "c"}

\* min_similarity, in tenths
MinSims == {-6, 0, 6}

(* ---------------------------- specifications --------------------------- *)

Init ==
    /\ rows = <<>>
    /\ MODEL_NAME = "m2"
    /\ embedder = None
    /\ artifact = NoArtifact
    /\ result = Res("init", NoArgs, FALSE, TRUE, <<>>)
    /\ training = NotTraining
    /\ pc = [t \in Threads |-> Idle]
    /\ constructed = 0
    /\ backfilling = NotBackfilling

NextMatch ==
    \/ \E d \in MatchInputs, f \in Failures : save_resume(d, f)
    \/ \E id \in Ids : delete_resume(id)
    \/ \E failed \in SUBSET Ids : backfill(failed)
    \/ \E m \in Models : restart(m)
    \/ \E jd \in JdTexts, n \in TopNs, ms \in MinSims, f \in Failures :
          match_job_description(jd, n, ms, f)

SpecMatch == Init /\ [][NextMatch]_vars

\* the store under every operation that writes it, and one search
NextStore ==
    \/ \E d \in MatchInputs, f \in Failures : save_resume(d, f)
    \/ \E id \in Ids, h \in BOOLEAN : set_hired(id, h, AtInsert)
    \/ \E id \in Ids : delete_resume(id)
    \/ \E failed \in SUBSET Ids : backfill(failed)
    \/ \E m \in Models : restart(m)
    \/ \E f \in Failures : match_job_description("a", MaxTopN, 0, f)

SpecStore == Init /\ [][NextStore]_vars

(* ------------------------- match_job_description ----------------------- *)

Matched == result.op = "match_job_description"
Searched == Matched /\ result.args.qvec # <<>>

Vec(r) == Loads(r.embedding).items

\* the rows whose embedding has the dimensionality of the query vector
ValidRows ==
    {i \in 1..Len(rows) :
        HasEmbedding(rows[i]) /\ Len(Vec(rows[i])) = Len(result.args.qvec)}

MismatchedRows ==
    {i \in 1..Len(rows) :
        HasEmbedding(rows[i]) /\ Len(Vec(rows[i])) # Len(result.args.qvec)}

\* dot(a, b) / (|a| |b|), and 0.0 when a norm is zero
Cosine(a, b) ==
    IF Dot(a, a) * Dot(b, b) = 0 THEN Zero ELSE Score(Dot(a, b), Dot(a, a) * Dot(b, b))

Qualifying ==
    {i \in ValidRows :
        Geq(Cosine(result.args.qvec, Vec(rows[i])), Tenths(result.args.min_similarity))}

SameScore(x, y) == Geq(x, y) /\ Geq(y, x)

\* result.out is the top_n best of the qualifying rows, each with its cosine
TopNOfQualifying ==
    LET out == result.out
    IN /\ \A k \in 1..Len(out) :
             \E i \in Qualifying :
                 /\ rows[i].id = out[k].id
                 /\ SameScore(out[k], Cosine(result.args.qvec, Vec(rows[i])))
       /\ \A k1, k2 \in 1..Len(out) : k1 # k2 => out[k1].id # out[k2].id
       /\ Len(out) = Min2(result.args.top_n, Cardinality(Qualifying))
       /\ \A i \in Qualifying :
             (\A k \in 1..Len(out) : out[k].id # rows[i].id) =>
                 \A k \in 1..Len(out) :
                     Geq(out[k], Cosine(result.args.qvec, Vec(rows[i])))

\* C1: every list match_job_description returns is sorted non-increasing by score,
\* holds only scores >= min_similarity and has at most top_n entries.
C1_SortedThresholdTopN ==
    Matched =>
        LET out == result.out
        IN /\ \A k \in 1..(Len(out) - 1) : Geq(out[k], out[k + 1])
           /\ \A k \in 1..Len(out) : Geq(out[k], Tenths(result.args.min_similarity))
           /\ Len(out) <= result.args.top_n

\* a search that put the later row first, kept a score equal to the threshold and
\* filled the list
C1_Witness ==
    /\ Matched
    /\ Len(result.out) = 2
    /\ result.args.top_n = 2
    /\ Gt(result.out[1], result.out[2])
    /\ result.out[1].id > result.out[2].id
    /\ SameScore(result.out[2], Tenths(result.args.min_similarity))

\* C2: match_job_description returns exactly the top_n highest-scoring of the stored
\* records that have a valid embedding and a cosine >= min_similarity (the boundary
\* included); a qualifying record is left out only behind top_n at least as good.
C2_ExactlyTopN == Searched => TopNOfQualifying

\* an embedding that is absent: NULL, or empty
Absent(r) == r.embedding.null \/ Vec(r) = <<>>

\* C3: a record whose embedding is absent is in no result of match_job_description,
\* whatever save_resume, backfill, set_hired and delete_resume did before.
C3_AbsentEmbeddingNeverMatched ==
    Matched =>
        \A k \in 1..Len(result.out) :
            /\ HasId(result.out[k].id)
            /\ ~Absent(RowOf(result.out[k].id))

\* a search that returned a record while another record with text has no embedding
C3_Witness ==
    /\ Matched
    /\ result.out # <<>>
    /\ \E i \in 1..Len(rows) :
          /\ Absent(rows[i])
          /\ rows[i].raw_text # ""
          /\ rows[i].hired = 1

\* C4: a stored record whose embedding has another dimensionality than the query is
\* left out of that search only: the others that qualify are returned as without it.
C4_MismatchIsolated ==
    (Searched /\ MismatchedRows # {}) => TopNOfQualifying


(* ------------------------------ rule ranker ---------------------------- *)

NotDict == [isdict |-> FALSE, has |-> FALSE, technical |-> JNull]

\* resumes without text: three well-formed ones, and the shapes of experience and
\* skills that json.dumps stores for other values of resume_data
RankInputs ==
    {Resume(JList(<<"AI", "ML">>), JList(Entries(3)), Number(90), ""),
     Resume(JList(<<"ai", "AI", "Python">>), JList(<<>>), NoNumber, ""),
     Resume(JList(<<"Python">>), JList(Entries(1)), Number(75), ""),
     Resume(JList(<<"AI">>), JNull, Number(90), ""),
     Resume(JList(<<"ML">>), JNum, NoNumber, ""),
     Resume(JList(<<>>), JStr(<<"n", "a">>), NoNumber, ""),
     Resume(JList(<<"AI">>), JObj(<<"role">>), NoNumber, ""),
     Resume(JNull, JList(Entries(1)), NoNumber, ""),
     Resume(JIntList(<<"1">>), JList(<<>>), Number(75), ""),
     Resume(JStr(<<"A", "I">>), JList(<<>>), NoNumber, ""),
     [Resume(JNull, JList(Entries(1)), Number(0), "") EXCEPT !.skills = NotDict]}

Given(list) == [none |-> FALSE, list |-> list]
NotGiven == [none |-> TRUE, list |-> <<>>]

PreferredOptions ==
    {NotGiven, Given(<<>>), Given(<<"AI", "ML">>), Given(<<"AI", "ai">>),
     Given(<<"Python">>)}

NextRule ==
    \/ \E d \in RankInputs : save_resume(d, "none")
    \/ \E id \in Ids : delete_resume(id)
    \/ \E p \in PreferredOptions, n \in TopNs : rank_resumes(p, n)

SpecRule == Init /\ [][NextRule]_vars

RuleRanked == result.op = "rank_resumes"
Returned == ~result.raised

\* a record as the data model has it: experience a list, technical a list of strings
WellFormed(r) ==
    /\ Loads(r.experience).t = "list"
    /\ Loads(r.skills).technical.t = "list"

TechnicalSet(r) ==
    LET technical == Loads(r.skills).technical
    IN {Lower(technical.items[i]) : i \in 1..Len(technical.items)}

CgpaOrZero(r) == IF r.cgpa.null THEN 0 ELSE r.cgpa.v

\* the entries of preferred whose lower-case form is a technical skill of r
MatchingEntries(r, preferred) ==
    {i \in 1..Len(preferred) : Lower(preferred[i]) \in TechnicalSet(r)}

\* (cgpa_or_zero * 2) + (matched * 3) + experience entries, in tenths
Formula(r, matched) ==
    CgpaOrZero(r) * 2 + matched * 3 * 10 + Len(Loads(r.experience).items) * 10

GivenOrDefault(p) == IF p.none \/ p.list = <<>> THEN <<"AI", "ML">> ELSE p.list

\* C5: rank_resumes scores a record (cgpa_or_zero * 2) + (matched preferred skills
\* * 3) + (experience entries), cgpa_or_zero being 0 for an absent cgpa, and returns
\* the records in the order of these scores; CGPA 9.0, 2 matches, 3 entries give 27.
C5_ScoreFormula ==
    (RuleRanked /\ Returned) =>
        LET out == result.out
            preferred == GivenOrDefault(result.args.preferred)
        IN /\ \A k \in 1..Len(out) :
                 WellFormed(RowOf(out[k].id)) =>
                     out[k].num = Formula(RowOf(out[k].id),
                                          Cardinality(MatchingEntries(RowOf(out[k].id), preferred)))
           /\ \A k \in 1..(Len(out) - 1) : out[k].num >= out[k + 1].num
           /\ \A k \in 1..Len(out) :
                 (/\ CgpaOrZero(RowOf(out[k].id)) = 90
                  /\ Cardinality(MatchingEntries(RowOf(out[k].id), preferred)) = 2
                  /\ Len(Loads(RowOf(out[k].id).experience).items) = 3
                  /\ WellFormed(RowOf(out[k].id))) => out[k].num = 270

\* the record of CGPA 9.0 with 2 matches and 3 entries ranked first with 27, before
\* a record without cgpa
C5_Witness ==
    /\ RuleRanked /\ Returned
    /\ Len(result.out) = 2
    /\ result.out[1].num = 270
    /\ result.out[1].id = 2
    /\ RowOf(result.out[2].id).cgpa.null
    /\ result.out[2].num = 30

\* C6: rank_resumes with preferred_skills None or [] returns what it returns with
\* preferred_skills = ["AI", "ML"], for every store and every top_n.
C6_DefaultSubstitution ==
    (RuleRanked /\ (result.args.preferred.none \/ result.args.preferred.list = <<>>)) =>
        LET r == RankOut(Given(<<"AI", "ML">>), result.args.top_n)
        IN result.raised = r.raised /\ result.out = r.out

\* rank_resumes([]) that ranked a record matching both AI and ML first
C6_Witness ==
    /\ RuleRanked /\ Returned
    /\ ~result.args.preferred.none
    /\ result.args.preferred.list = <<>>
    /\ Len(result.out) = 2
    /\ result.out[1].num = 270
    /\ result.out[1].id = 2

\* the preferred skills counted once each, whatever their case
DistinctMatches(r, preferred) ==
    {Lower(preferred[i]) : i \in MatchingEntries(r, preferred)}

\* C7: the matched count is the number of preferred skills, each counted at most
\* once, whose case-insensitive form is a technical skill of the record: duplicates
\* in the technical skills or in preferred_skills (["AI", "ai"]) do not raise it.
C7_CountedOnce ==
    (RuleRanked /\ Returned) =>
        \A k \in 1..Len(result.out) :
            LET r == RowOf(result.out[k].id)
            IN WellFormed(r) =>
                 result.out[k].num =
                     Formula(r, Cardinality(DistinctMatches(r, GivenOrDefault(result.args.preferred))))

\* what a field contributes when it is what the data model says, and zero otherwise
TolerantScore(r, preferred) ==
    LET experience == Loads(r.experience)
        technical == Loads(r.skills).technical
        entries == IF experience.t = "list" THEN Len(experience.items) ELSE 0
        matched == IF technical.t = "list"
                   THEN Cardinality(MatchingEntries(r, preferred)) ELSE 0
    IN CgpaOrZero(r) * 2 + matched * 3 * 10 + entries * 10

\* C8: rank_resumes never raises because of one record: a malformed experience or
\* skills text contributes zero to that record's score, and every record of the
\* batch is scored and ranked.
C8_MalformedCountsZero ==
    RuleRanked =>
        /\ Returned
        /\ Len(result.out) = Min2(result.args.top_n, Len(rows))
        /\ \A k \in 1..Len(result.out) :
              result.out[k].num =
                  TolerantScore(RowOf(result.out[k].id), GivenOrDefault(result.args.preferred))


(* ------------------------------- ML ranker ----------------------------- *)

MlInputs ==
    {Resume(JList(<<"AI", "ML">>), JList(Entries(3)), Number(90), ""),
     Resume(JList(<<"ai", "AI", "Python">>), JList(<<>>), NoNumber, ""),
     Resume(JNull, JStr(<<"n", "a">>), Number(75), "")}

NextML ==
    \/ \E d \in MlInputs : save_resume(d, "none")
    \/ \E id \in Ids, h \in BOOLEAN : set_hired(id, h, AtInsert)
    \/ \E id \in Ids : delete_resume(id)
    \/ \E write \in {"ok", "fail"} : train(write)
    \/ \E n \in TopNs : rank_resumes(Given(<<"Python">>), n)
    \/ \E n \in TopNs : ml_rank_resumes(n)

SpecML == Init /\ [][NextML]_vars

MlRanked == result.op = "ml_rank_resumes"

\* the score the ranker that produced result computes for row i
ComputedScore(i) ==
    IF RuleRanked THEN Score(RuleScore(rows[i], Preferred(result.args.preferred)).score, 1)
    ELSE PredictProba(artifact, MlFeatures(rows[i]))

\* C9: rank_resumes and ml_rank_resumes return the records sorted non-increasing by
\* the score they compute and truncated to top_n: min(top_n, number of records)
\* entries, and no record left out scores strictly higher than a returned one.
C9_SortedTruncated ==
    ((RuleRanked \/ (MlRanked /\ artifact.state = "model")) /\ Returned) =>
        LET out == result.out
        IN /\ Len(out) = Min2(result.args.top_n, Len(rows))
           /\ \A k \in 1..(Len(out) - 1) : Geq(out[k], out[k + 1])
           /\ \A k1, k2 \in 1..Len(out) : k1 # k2 => out[k1].id # out[k2].id
           /\ \A k \in 1..Len(out) :
                 /\ HasId(out[k].id)
                 /\ SameScore(out[k], ComputedScore(IndexOf(out[k].id)))
           /\ \A i \in 1..Len(rows) :
                 (\A k \in 1..Len(out) : out[k].id # rows[i].id) =>
                     \A k \in 1..Len(out) : Geq(out[k], ComputedScore(i))

\* ml_rank_resumes(1) over two records that returned the later one, which scores
\* strictly higher than the one left out
C9_Witness ==
    /\ MlRanked /\ Returned
    /\ artifact.state = "model"
    /\ Len(rows) = 2
    /\ result.args.top_n = 1
    /\ Len(result.out) = 1
    /\ result.out[1].id = rows[2].id
    /\ Gt(result.out[1], ComputedScore(1))

\* C10: while no model artifact exists, ml_rank_resumes returns the empty list and
\* does not raise, for every top_n and however many records are stored.
C10_UntrainedReturnsEmpty ==
    (MlRanked /\ artifact.state = "absent") =>
        (Returned /\ result.out = <<>>)

\* ml_rank_resumes(2) over two stored records, one hired, before any artifact
C10_Witness ==
    /\ MlRanked
    /\ artifact.state = "absent"
    /\ Len(rows) = 2
    /\ \E i \in 1..Len(rows) : rows[i].hired = 1
    /\ result.args.top_n = 2
    /\ result.out = <<>>


(* --------------------------- train, no records ------------------------- *)

Trained == result.op = "train"

\* C11: train() over a store without records fails with an error its caller can
\* observe (InsufficientData): it does not return as a call that succeeded does.
C11_EmptyTrainFails ==
    (Trained /\ rows = <<>>) => result.raised

\* C12: train() over a store without records leaves the artifact as it was, in
\* existence and in content, and ml_rank_resumes then gives what it gave before.
C12_EmptyTrainKeepsArtifact ==
    [][\A write \in {"ok", "fail"} :
          (rows = <<>> /\ train(write)) =>
              /\ artifact' = artifact
              /\ \A n \in TopNs : MlOut(n)' = MlOut(n)]_vars

\* train() over the emptied store while the artifact of an earlier train exists
C12_Witness ==
    /\ Trained
    /\ rows = <<>>
    /\ artifact.state = "model"


(* ------------------------- the ranker's lifecycle ---------------------- *)

\* every operation of the repository that reads or writes the artifact, over a store
\* that save_resume and set_hired fill
NextLifecycle ==
    \/ \E d \in MlInputs : save_resume(d, "none")
    \/ \E id \in Ids, h \in BOOLEAN : set_hired(id, h, AtInsert)
    \/ \E write \in {"ok", "fail"} : train(write)
    \/ \E n \in TopNs : ml_rank_resumes(n)
    \/ \E failed \in SUBSET CleanupFiles : cleanup_project(failed)

SpecLifecycle == Init /\ [][NextLifecycle]_vars

Untrained == artifact.state = "absent"

\* C13: the ranker goes from Untrained to Trained by a successful train and stays
\* Trained: no operation takes it from Trained back to Untrained, and a call
\* ml_rank_resumes(top_n >= 1) over a store with records returns the empty list
\* only while Untrained.
C13_TrainedStaysTrained ==
    /\ [][artifact.state = "model" => ~Untrained']_vars
    /\ [](( /\ MlRanked /\ Returned
            /\ rows # <<>>
            /\ result.args.top_n >= 1
            /\ result.out = <<>>) => Untrained)


(* -------------------- train() beside ml_rank_resumes ------------------- *)

\* one train() at a time, in its steps, beside the calls of the application
NextTraining ==
    \/ \E d \in MlInputs : save_resume(d, "none")
    \/ \E id \in Ids, h \in BOOLEAN : set_hired(id, h, AtInsert)
    \/ train_open
    \/ \E write \in {"ok", "fail"} : train_dump(write)
    \/ \E n \in TopNs : ml_rank_resumes(n)

SpecTraining == Init /\ [][NextTraining]_vars

\* C14: a call of ml_rank_resumes made while a train() is in progress loads the
\* whole artifact of before that train or the whole new one: it finds the file
\* neither truncated nor partly written, and does not raise.
C14_WholeArtifactDuringTrain ==
    [][\A n \in TopNs :
          (training.at = "dump" /\ ml_rank_resumes(n)) =>
              (artifact.state # "partial" /\ ~result'.raised)]_vars


(* ------------------- embed_text in concurrent threads ------------------ *)

\* the texts the threads embed: empty, whitespace only, and a text
ThreadTexts == {"", " ", "a"}

NextThreads ==
    \/ \E t \in Threads, text \in ThreadTexts : embed_text_call(t, text)
    \/ \E t \in Threads : get_model_test(t)
    \/ \E t \in Threads, fail \in {"none", "load"} : get_model_construct(t, fail)
    \/ \E t \in Threads : get_model_return(t)
    \/ \E t \in Threads, fail \in {"none", "encode"} : embed_text_encode(t, fail)
    \/ \E m \in Models : restart(m)

SpecThreads == Init /\ [][NextThreads]_vars

\* C15: whatever the interleaving of the calls of embed_text in one process, the
\* model is constructed at most once in that process, and once _embedder is set no
\* call sets it again.
C15_ConstructedOnce ==
    /\ [](constructed <= 1)
    /\ [][embedder # None =>
             \/ embedder' = embedder /\ constructed' = constructed
             \/ \E m \in Models : restart(m)]_vars


(* --------------------------- failures to callers ----------------------- *)

\* C17: when the provider fails while match_job_description embeds the job
\* description (the model cannot be loaded, or the inference raises), the call ends
\* with an error, which a search that found nothing does not.
C17_ProviderFailureSurfaces ==
    [][\A jd \in JdTexts, n \in TopNs, ms \in MinSims, f \in {"load", "encode"} :
          match_job_description(jd, n, ms, f) => result'.raised]_vars

\* what ml_rank_resumes gives its caller while MODEL_PATH does not exist
NotTrainedResult == [raised |-> FALSE, out |-> <<>>]

\* C18: what ml_rank_resumes gives its caller when a trained model exists and
\* there is nothing to rank (no record, or top_n = 0) differs from what it gives
\* while no model has been trained.
C18_NotTrainedDistinguishable ==
    (MlRanked /\ artifact.state = "model" /\ (rows = <<>> \/ result.args.top_n = 0)) =>
        [raised |-> result.raised, out |-> result.out] # NotTrainedResult

(* ------------------------- searches that match nothing ----------------- *)

\* C21: match_job_description returns the empty list, and does not query the store,
\* when the job description is empty or whitespace only and when the embedding it
\* got for the job description is empty.
C21_BlankQueryReturnsEmpty ==
    (Matched /\ (result.args.jd \in {"", " "} \/ result.args.qvec = <<>>)) =>
        /\ Returned
        /\ result.out = <<>>
        /\ ~result.args.queried

\* a search with a whitespace-only text over two records that have an embedding,
\* in a process that has the model loaded
C21_Witness ==
    /\ Matched
    /\ result.args.jd = " "
    /\ result.args.top_n = MaxTopN
    /\ embedder # None
    /\ Len(rows) = 2
    /\ \A i \in 1..Len(rows) : HasEmbedding(rows[i])
    /\ result.out = <<>>

(* --------------------------------- ties -------------------------------- *)

\* records that tie: the texts "a" and "d" have the same cosine to the query "a",
\* and the first three records have the same rule score
TieInputs ==
    {Resume(JList(<<"AI">>), JList(Entries(1)), Number(90), t) : t \in {"a", "b", "d"}}
        \cup {Resume(JList(<<>>), JList(<<>>), NoNumber, "a")}

NextTies ==
    \/ \E d \in TieInputs : save_resume(d, "none")
    \/ \E id \in Ids : delete_resume(id)
    \/ \E jd \in {"a", "b"}, n \in TopNs : match_job_description(jd, n, 0, "none")
    \/ \E p \in {NotGiven, Given(<<"Python">>)}, n \in TopNs : rank_resumes(p, n)

SpecTies == Init /\ [][NextTies]_vars

\* the score the operation that produced result gave row i
ScoreOfRow(i) ==
    IF Matched THEN Cosine(result.args.qvec, Vec(rows[i])) ELSE ComputedScore(i)

\* the rows the operation that produced result scored
ScoredRows ==
    IF Matched THEN {i \in 1..Len(rows) : HasEmbedding(rows[i])} ELSE 1..Len(rows)

\* C22: in what match_job_description and rank_resumes return, records of equal
\* score stand in the order in which the store supplied them, and a record left
\* out by top_n stands in the store after every returned record of equal score;
\* so the result is a function of the store and the arguments.
C22_TiesInStoreOrder ==
    ((Matched \/ RuleRanked) /\ Returned) =>
        LET out == result.out
        IN /\ \A k1, k2 \in 1..Len(out) :
                 (k1 < k2 /\ SameScore(out[k1], out[k2])) =>
                     IndexOf(out[k1].id) < IndexOf(out[k2].id)
           /\ \A i \in ScoredRows, k \in 1..Len(out) :
                 (/\ \A j \in 1..Len(out) : out[j].id # rows[i].id
                  /\ SameScore(out[k], ScoreOfRow(i))) =>
                     IndexOf(out[k].id) < i

\* a search whose two records tie, with different embeddings, and top_n = 1: the
\* earlier record is the one returned
C22_Witness ==
    /\ Matched
    /\ result.args.top_n = 1
    /\ Len(rows) = 2
    /\ rows[1].raw_text = "d" /\ rows[2].raw_text = "a"
    /\ SameScore(ScoreOfRow(1), ScoreOfRow(2))
    /\ Len(result.out) = 1
    /\ result.out[1].id = rows[1].id

(* ------------------------ features of the ML ranker -------------------- *)

\* C26: for every record, also one without cgpa or with skills or experience that
\* are not the lists expected, the features ml_rank_resumes scores are the features
\* _build_features gives to the training, and the label is the hired flag, 0 or 1.
C26_SameFeatures ==
    \A i \in 1..Len(rows) :
        /\ build_features(rows[i]).x = MlFeatures(rows[i])
        /\ build_features(rows[i]).label = rows[i].hired
        /\ rows[i].hired \in {0, 1}

\* the trained ranker has scored a record without cgpa and a record whose skills
\* and experience are not lists
C26_Witness ==
    /\ MlRanked /\ Returned
    /\ Len(result.out) = 2
    /\ \E i \in 1..Len(rows) : rows[i].cgpa.null
    /\ \E i \in 1..Len(rows) :
          /\ PyLen(Loads(rows[i].skills).technical).raised
          /\ Loads(rows[i].experience).t = "str"

(* ----------------------- the artifact and its trains ------------------- *)

\* what fit gives for the records stored now
FitOfStore ==
    LET feats == [i \in 1..Len(rows) |-> build_features(rows[i])]
    IN Fit([i \in 1..Len(rows) |-> feats[i].x], [i \in 1..Len(rows) |-> feats[i].label])

\* C28: ml_rank_resumes scores with the model of the latest successful train, fitted
\* to all the records stored at that train: the artifact changes only in a train
\* that succeeds, which replaces it by the fit of the whole store, and
\* ml_rank_resumes loads it and scores every record with it.
C28_ScoresWithLatestTrain ==
    [][/\ (artifact.state = "model" /\ artifact' # artifact) =>
             /\ \E write \in {"ok", "fail"} : train(write)
             /\ result'.ret
             /\ artifact' = FitOfStore
       /\ \A n \in TopNs :
             (ml_rank_resumes(n) /\ artifact.state = "model") =>
                 /\ ~result'.raised
                 /\ result'.out =
                        PySlice(SortDesc([i \in 1..Len(rows) |->
                                    Entry(rows[i].id,
                                          PredictProba(artifact, MlFeatures(rows[i])))]), n)]_vars

\* C30: the artifact changes only in a train() that succeeds: a train that fails,
\* in fit or in writing the file, and every call of rank_resumes, ml_rank_resumes
\* and set_hired leave the artifact of the last successful train as it is, loadable.
C30_ArtifactIntactOnFailure ==
    [][artifact.state = "model" =>
          \/ artifact' = artifact
          \/ (Trained' /\ result'.ret /\ artifact'.state = "model")]_vars

(* ------------------------------ set_hired ------------------------------ *)

\* the flag is set at the time of the insert and later
NextHired ==
    \/ \E d \in MlInputs : save_resume(d, "none")
    \/ \E id \in Ids, h \in BOOLEAN, now \in {AtInsert, Later} : set_hired(id, h, now)
    \/ \E id \in Ids : delete_resume(id)

SpecHired == Init /\ [][NextHired]_vars

\* the record r with the flag hired and nothing else changed
WithFlag(r, hired) == [r EXCEPT !.hired = IF hired THEN 1 ELSE 0]

\* a record saved now has hired = 0
NewRecordNotHired ==
    \A d \in MlInputs :
        (save_resume(d, "none") /\ result'.ret) => rows'[Len(rows')].hired = 0

\* C29 as stated: hired is 0 in a new record; set_hired(id, b) on a stored id sets
\* the flag of that record to b, returns success and changes no other field and no
\* other record; on an id that is not stored it returns failure and changes nothing.
C29_SetHiredOnlyFlag ==
    [][/\ NewRecordNotHired
       /\ \A id \in Ids, h \in BOOLEAN, now \in {AtInsert, Later} :
             set_hired(id, h, now) =>
                 IF HasId(id)
                 THEN /\ result'.ret
                      /\ rows' = [rows EXCEPT ![IndexOf(id)] = WithFlag(@, h)]
                 ELSE /\ ~result'.ret
                      /\ rows' = rows]_vars

\* C29 (amended): as stated, except that the record whose flag changes may get a
\* later updated_at.
C29_SetHiredFlagAndTimestamp ==
    [][/\ NewRecordNotHired
       /\ \A id \in Ids, h \in BOOLEAN, now \in {AtInsert, Later} :
             set_hired(id, h, now) =>
                 IF HasId(id)
                 THEN /\ result'.ret
                      /\ rows' = [rows EXCEPT ![IndexOf(id)] =
                                     [WithFlag(@, h) EXCEPT
                                         !.updated_at = rows'[IndexOf(id)].updated_at]]
                      /\ rows'[IndexOf(id)].updated_at >= rows[IndexOf(id)].updated_at
                      /\ rows[IndexOf(id)].hired = rows'[IndexOf(id)].hired =>
                             rows' = rows
                 ELSE /\ ~result'.ret
                      /\ rows' = rows]_vars

\* set_hired(2, True) has returned success over two records: the second is hired
\* and updated later, the first is neither
C29_Witness ==
    /\ result.op = "set_hired" /\ result.ret
    /\ result.args.id = 2 /\ result.args.flag
    /\ Len(rows) = 2
    /\ rows[2].hired = 1 /\ rows[2].updated_at = Later
    /\ rows[1].hired = 0 /\ rows[1].updated_at = AtInsert

(* --------------------------- cosine_similarity ------------------------- *)

\* Components of the vectors: 0.0, 1.0, 3.0, 5.0, -1.0, a number whose square is
\* below the smallest float, and one whose square is above the largest.
Tiny == 1
Huge == 2 * Pow2(ExpRange)
Components == {0, One, 3 * One, 5 * One, -One, Tiny, Huge}

MaxDim == 2
Vectors == UNION {[1..n -> Components] : n \in 0..MaxDim}

\* a call of cosine_similarity(a, b) that has not run yet
Call(a, b) ==
    Res("call", [NoArgs EXCEPT !.a = a, !.b = b], FALSE, FALSE, <<>>)

InitCosine ==
    /\ rows = <<>>
    /\ MODEL_NAME = "m1"
    /\ embedder = None
    /\ artifact = NoArtifact
    /\ training = NotTraining
    /\ pc = [t \in Threads |-> Idle]
    /\ constructed = 0
    /\ backfilling = NotBackfilling
    /\ result \in {Call(a, b) : a, b \in Vectors}

cosine_similarity_call ==
    /\ result.op = "call"
    /\ LET r == cosine_similarity_float(result.args.a, result.args.b)
       IN result' = Res("cosine_similarity",
                        [result.args EXCEPT !.value = r.value],
                        r.raised, ~r.raised, <<>>)
    /\ UNCHANGED <<rows, MODEL_NAME, embedder, artifact, training, pc, constructed, backfilling>>

NextCosine == cosine_similarity_call

SpecCosine == InitCosine /\ [][NextCosine]_vars

CosineCalled == result.op = "cosine_similarity"

\* every component is 0.0
ZeroVector(v) == \A i \in 1..Len(v) : v[i] = 0

\* C23: cosine_similarity returns 0.0, and does not raise, whenever one of the
\* vectors is empty or has norm zero.
C23_ZeroNormGivesZero ==
    (CosineCalled /\ (ZeroVector(result.args.a) \/ ZeroVector(result.args.b))) =>
        /\ ~result.raised
        /\ result.args.value = Fin(0)

\* C24: for vectors of one length cosine_similarity(a, b) = cosine_similarity(b, a),
\* and cosine_similarity(a, a) = 1.0 when the norm of a is not zero.
C24_SymmetricAndSelfOne ==
    (CosineCalled /\ Len(result.args.a) = Len(result.args.b)) =>
        /\ cosine_similarity_float(result.args.b, result.args.a)
               = [raised |-> result.raised, value |-> result.args.value]
        /\ (result.args.a = result.args.b /\ ~ZeroVector(result.args.a)) =>
               (~result.raised /\ result.args.value = Fin(One))

\* C25: what cosine_similarity returns is a number from -1.0 to 1.0.
C25_CosineInUnitRange ==
    (CosineCalled /\ ~result.raised) =>
        /\ result.args.value.c = "fin"
        /\ -One <= result.args.value.k
        /\ result.args.value.k <= One

(* ------------------- embeddings of the stored records ------------------ *)

\* records with no text and with two texts
BackfillInputs ==
    {Resume(JList(<<"AI">>), JList(Entries(1)), NoNumber, t) : t \in {"", "a", "c"}}

\* the application saves, deletes and searches while a back-fill runs in its steps
NextBackfill ==
    \/ \E d \in BackfillInputs, f \in {"none", "encode"} : save_resume(d, f)
    \/ \E id \in Ids : delete_resume(id)
    \/ backfill_select
    \/ \E fail \in {"none", "encode"} : backfill_row(fail)
    \/ \E n \in TopNs : match_job_description("a", n, 0, "none")

SpecBackfill == Init /\ [][NextBackfill]_vars

\* C27: the embedding of a record is computed when the record is saved and not
\* again: no operation, the back-fill included, changes an embedding that a record
\* has, and match_job_description embeds the job description only and leaves the
\* records as they are.
C27_EmbeddingNeverOverwritten ==
    [][/\ \A id \in Ids :
             (HasId(id) /\ HasEmbedding(RowOf(id)) /\ HasId(id)') =>
                 RowOf(id)'.embedding = RowOf(id).embedding
       /\ \A n \in TopNs : match_job_description("a", n, 0, "none") => rows' = rows]_vars

(* ------------------------------ ingestion ------------------------------ *)

\* cgpa as resume_data gives it, in tenths: absent, below 0, 0, 10.0 and above 10
Cgpas == {NoNumber, Number(-1), Number(0), Number(100), Number(101)}

\* raw_text: empty, whitespace only, and a text
RawTexts == {"", " ", "a"}

IngestInputs ==
    {Resume(JList(<<"AI">>), JList(Entries(1)), c, t) : c \in Cgpas, t \in RawTexts}

NextIngest ==
    \/ \E d \in IngestInputs, f \in Failures : save_resume(d, f)
    \/ \E id \in Ids : delete_resume(id)
    \/ \E failed \in SUBSET Ids : backfill(failed)

SpecIngest == Init /\ [][NextIngest]_vars

Saved == result.op = "save_resume"

\* C16: save_resume does not fail because of the embedding: when embed_text raises
\* or gives the empty list, the record is stored with its other fields as given and
\* with embedding None, and backfill still selects it (and fills it when it has text).
C16_EmbeddingBestEffort ==
    [][\A d \in IngestInputs, f \in Failures :
          (/\ save_resume(d, f)
           /\ CgpaInRange(d.cgpa)
           /\ (f # "none" \/ d.raw_text = "")) =>
              /\ ~result'.raised
              /\ Len(rows') = Len(rows) + 1
              /\ LET r == rows'[Len(rows')]
                 IN /\ r.id = result'.args.id
                    /\ r.raw_text = d.raw_text
                    /\ r.cgpa = d.cgpa
                    /\ r.skills = Dumps(SkillsDict(d.skills.technical))
                    /\ r.experience = Dumps(d.experience)
                    /\ r.embedding = SqlNull
                    /\ r.id \in NeedsEmbedding'
                    /\ (r.raw_text # "" => HasEmbedding(BackfillRow(r, {})))]_vars

\* a record with text stored without embedding because the model could not be loaded
C16_Witness ==
    /\ Saved /\ Returned
    /\ embedder = None
    /\ RowOf(result.args.id).raw_text = "a"
    /\ RowOf(result.args.id).embedding.null
    /\ RowOf(result.args.id).cgpa.v = 100

\* C19: every stored cgpa is absent or within [0, 10], whatever cgpa the calls of
\* save_resume were given: a call with a cgpa outside [0, 10] raises and stores
\* nothing.
C19_CgpaInRange ==
    /\ [](\A i \in 1..Len(rows) :
             rows[i].cgpa.null \/ (rows[i].cgpa.v >= 0 /\ rows[i].cgpa.v <= 100))
    /\ [][\A d \in IngestInputs, f \in Failures :
             (save_resume(d, f) /\ ~d.cgpa.null /\ (d.cgpa.v < 0 \/ d.cgpa.v > 100)) =>
                 (result'.raised /\ rows' = rows)]_vars

\* a save that was rejected, over a store that holds cgpa 0 and cgpa 10.0
C19_Witness ==
    /\ Saved /\ result.raised
    /\ Len(rows) = 2
    /\ rows[1].cgpa = Number(0)
    /\ rows[2].cgpa = Number(100)

\* C20: embed_text gives the empty list for a text that is empty or whitespace
\* only, without loading the model and without raising; so a record saved with a
\* whitespace-only raw_text has no embedding.
C20_WhitespaceGivesEmpty ==
    /\ \A text \in {"", " "}, f \in Failures :
          CanFail(text, embedder, f) =>
              LET e == embed_text(text, MODEL_NAME, embedder, f)
              IN ~e.raised /\ e.vec = <<>> /\ e.loaded = embedder
    /\ \A i \in 1..Len(rows) :
          Strip(rows[i].raw_text) = "" => rows[i].embedding.null

====
